---- MODULE Spec2Model ----
(***************************************************************************)
(* Model of m4sTmp3-y.py: FFmpegWorker (one conversion job, run on its own *)
(* QThread) and MainWindow (the coordinator on the UI thread).             *)
(*                                                                         *)
(* A path is a sequence of one-character strings.  A worker's run() is cut *)
(* into steps at every point where the UI thread or a subprocess can       *)
(* interleave.  Signals of a worker are queued to the UI thread's event    *)
(* loop (the worker lives in another thread), modelled by `queue'.         *)
(*                                                                         *)
(* A duration or time token is printed by the tool as text and parsed by  *)
(* _time_str_to_seconds character by character; seconds are counted in     *)
(* hundredths.                                                             *)
(*                                                                         *)
(* Spec, SpecBatch and SpecRestart run the jobs and the coordinator;       *)
(* SpecPath and SpecTime put every bounded path and duration through the   *)
(* first steps of run().                                                   *)
(*                                                                         *)
(* Left out: find_ffmpeg and has_video_stream of FFmpegWorker.__init__     *)
(* (their results decide nothing in run()), the widgets and the log pane.  *)
(* QProcess.kill() is taken to end the subprocess at once, and a started   *)
(* QProcess to be Running at once.                                         *)
(***************************************************************************)
EXTENDS Integers, Sequences, FiniteSets, TLC

(* ------------------------------ bounds --------------------------------- *)
\* most entries of the input list (jobs of a batch)
MaxFiles == 2
\* largest probed duration, in time units
MaxDur == 1
\* largest time token a subprocess reports, in time units
MaxTime == 2
\* most non-blank stderr chunks one subprocess delivers
MaxStderr == 1
\* most clicks on the cancel button
MaxCancels == 1
\* most clicks on the start button
MaxBatches == 1
\* most emissions the running event loop of the UI thread lags behind
MaxQueue == 2
\* most clicks on the start button in SpecRestart
MaxRestartBatches == 2
\* the longest input path of SpecPath, in characters
MaxPathLen == 5
\* the largest hours, minutes, seconds and hundredths of the durations of
\* SpecTime
MaxHours == 1
MaxMinutes == 2
MaxSeconds == 30
MaxHundredths == 50

Jobs == 1..MaxFiles

(* ------------------------------ paths ---------------------------------- *)
\* "in/a.mp4": exists, no sibling .m4a
PlainInput == <<"i", "/", "a", ".", "v">>
\* "in/s.m4s": exists, sibling "in/s.m4a" exists
SegInput == <<"i", "/", "s", ".", "v">>
\* "in/m.mp4": does not exist
MissingInput == <<"i", "/", "m", ".", "v">>
InputChoices == {PlainInput, SegInput, MissingInput}
OutDir == <<"o">>
ExtM4a == <<".", "m", "4", "a">>
ExtMp3 == <<".", "m", "p", "3">>
MergedSuffix == <<"_", "m", "e", "r", "g", "e", "d", ".", "t", "s">>

\* str.rfind: the last index of ch in p, 0 when absent (1-based)
rfind(p, ch) ==
    LET hits == {i \in 1..Len(p) : p[i] = ch}
    IN  IF hits = {} THEN 0 ELSE CHOOSE i \in hits : \A k \in hits : k <= i

\* os.path.basename
basename(p) == SubSeq(p, rfind(p, "/") + 1, Len(p))

\* os.path.splitext: <<root, ext>>; leading dots of the last component are
\* no extension
splitext(p) ==
    LET sepIndex == rfind(p, "/")
        dotIndex == rfind(p, ".")
    IN  IF /\ dotIndex > sepIndex
           /\ \E k \in (sepIndex + 1)..(dotIndex - 1) : p[k] # "."
        THEN <<SubSeq(p, 1, dotIndex - 1), SubSeq(p, dotIndex, Len(p))>>
        ELSE <<p, <<>>>>

\* os.path.join(a, b)
join(a, b) ==
    IF b # <<>> /\ b[1] = "/" THEN b
    ELSE IF a = <<>> \/ a[Len(a)] = "/" THEN a \o b
    ELSE a \o <<"/">> \o b

\* lines 80-82 without the basename of line 80
OutputPath_KeepsDirectory(input_path, out_dir) ==
    join(out_dir, splitext(input_path)[1] \o ExtMp3)

\* run(), lines 80-82
OutputPath(input_path, out_dir) ==
    join(out_dir, splitext(basename(input_path))[1] \o ExtMp3)

\* run(), line 95
AudioFile(input_path) == splitext(input_path)[1] \o ExtM4a

\* run(), line 97
MergedTs(input_path) == splitext(input_path)[1] \o MergedSuffix

\* the files on disk before the program starts, stale merge artifacts apart
BaseFiles == {PlainInput, SegInput, AudioFile(SegInput)}
StaleFiles == {MergedTs(SegInput)}

(* ------------------------------ times ---------------------------------- *)
\* A time is <<h, m, s, f, w>>: hours, minutes, seconds, hundredths, and the
\* width the tool prints the hours with; the tool prints it as H:MM:SS.ff
\* (w = 1) or HH:MM:SS.ff (w = 2).  NoDuration: the output of the probe has
\* no match for the pattern of line 90.
NoDuration == <<>>

Digits == <<"0", "1", "2", "3", "4", "5", "6", "7", "8", "9">>
DigitChar(k) == Digits[k + 1]
DigitValue(c) == (CHOOSE k \in DOMAIN Digits : Digits[k] = c) - 1
Digits2(n) == <<DigitChar(n \div 10), DigitChar(n % 10)>>

\* the text group(1) of lines 90 and 178 holds for the time d
TimeText(d) ==
    (IF d[5] = 1 THEN <<DigitChar(d[1])>> ELSE Digits2(d[1]))
        \o <<":">> \o Digits2(d[2]) \o <<":">> \o Digits2(d[3])
        \o <<".">> \o Digits2(d[4])

\* str.split(sep)
RECURSIVE split(_, _)
split(str, sep) ==
    LET hits == {i \in DOMAIN str : str[i] = sep}
    IN  IF hits = {} THEN <<str>>
        ELSE LET i == CHOOSE k \in hits : \A n \in hits : k <= n
             IN  <<SubSeq(str, 1, i - 1)>>
                     \o split(SubSeq(str, i + 1, Len(str)), sep)

\* int() of a string of decimal digits
RECURSIVE int(_)
int(str) ==
    IF str = <<>> THEN 0
    ELSE 10 * int(SubSeq(str, 1, Len(str) - 1)) + DigitValue(str[Len(str)])

\* float() of digits, a dot and digits, in hundredths; digits after the
\* second decimal are dropped
float(str) ==
    LET parts == split(str, ".")
        frac == IF Len(parts) < 2 THEN <<>> ELSE parts[2]
    IN  100 * int(parts[1])
            + (IF Len(frac) >= 1 THEN 10 * DigitValue(frac[1]) ELSE 0)
            + (IF Len(frac) >= 2 THEN DigitValue(frac[2]) ELSE 0)

\* _time_str_to_seconds with the minutes weighted as seconds
time_str_to_seconds_MinutesAsSeconds(time_str) ==
    LET hms == split(time_str, ":")
    IN  IF Len(hms) = 3
        THEN int(hms[1]) * 360000 + int(hms[2]) * 100 + float(hms[3])
        ELSE 0

\* _time_str_to_seconds, lines 190-203, in hundredths of a second
time_str_to_seconds(time_str) ==
    LET hms == split(time_str, ":")
    IN  IF Len(hms) = 3
        THEN int(hms[1]) * 360000 + int(hms[2]) * 6000 + float(hms[3])
        ELSE IF Len(hms) = 2
        THEN int(hms[1]) * 6000 + float(hms[2])
        ELSE 0

(* ------------------------------ state ---------------------------------- *)
VARIABLES
    \* MainWindow
    input_paths, output_dir, active_threads, thread_workers,
    total_files, current_files_processed, total_progress, progress_bar,
    last_progress_update_time,
    \* the UI thread: its position, the index of the cancel loop, the
    \* numbers of cancel and start clicks, and its queue of posted signal
    \* emissions
    uiPc, ci, cancels, batches, queue,
    \* FFmpegWorker j
    pc, input_path, output_path, total_duration, is_cancelled,
    has_process, process, duration_process,
    \* what the probe's output says of worker j's file, and the exit code
    \* of worker j's merge subprocess as _run_merge leaves it to run()
    probe_duration, merge_exit,
    \* the files on disk
    fs,
    \* every signal emission of worker j, in order
    events

uiVars == <<input_paths, output_dir, active_threads, thread_workers,
            total_files, current_files_processed, total_progress,
            progress_bar, last_progress_update_time, uiPc, ci, cancels,
            batches>>
workerVars == <<pc, input_path, output_path, total_duration, is_cancelled,
                has_process, process, duration_process, probe_duration,
                merge_exit>>
vars == <<uiVars, queue, workerVars, fs, events>>

\* a QProcess that was never started
NoProcess == [state |-> "NotRunning", exitCode |-> 0, stage |-> "none",
              out |-> <<>>, canSucceed |-> FALSE, time |-> 0, nerr |-> 0]

\* QProcess.kill() on Unix ends the child with SIGKILL; exitCode() is then
\* the signal number
KilledExitCode == 9

ProgressEv(j, cur, total) ==
    [kind |-> "Progress", job |-> j, cur |-> cur, total |-> total,
     path |-> <<>>, src |-> "none"]
FinishedEv(j, path) ==
    [kind |-> "Finished", job |-> j, cur |-> 0, total |-> 0,
     path |-> path, src |-> "none"]
ErrorEv(j, src) ==
    [kind |-> "Error", job |-> j, cur |-> 0, total |-> 0,
     path |-> <<>>, src |-> src]

\* the state after MainWindow.__init__, lines 366-383, on a disk that holds
\* files
InitOn(files) ==
    /\ input_paths = <<>>
    /\ output_dir = <<>>
    /\ active_threads = <<>>
    /\ thread_workers = {}
    /\ total_files = 0
    /\ current_files_processed = 0
    /\ total_progress = <<0, 1>>
    /\ progress_bar = 0
    /\ last_progress_update_time = 0
    /\ uiPc = "idle"
    /\ ci = 0
    /\ cancels = 0
    /\ batches = 0
    /\ queue = <<>>
    /\ pc = [j \in Jobs |-> "none"]
    /\ input_path = [j \in Jobs |-> <<>>]
    /\ output_path = [j \in Jobs |-> <<>>]
    /\ total_duration = [j \in Jobs |-> 0]
    /\ is_cancelled = [j \in Jobs |-> FALSE]
    /\ has_process = [j \in Jobs |-> FALSE]
    /\ process = [j \in Jobs |-> NoProcess]
    /\ duration_process = [j \in Jobs |-> "none"]
    /\ probe_duration = [j \in Jobs |-> NoDuration]
    /\ merge_exit = [j \in Jobs |-> <<>>]
    /\ fs = files
    /\ events = [j \in Jobs |-> <<>>]

Init == \E s \in SUBSET StaleFiles : InitOn(BaseFiles \cup s)

(* --------------------------- FFmpegWorker ------------------------------ *)
\* signal.emit(): the receiver lives in the UI thread, so the emission is
\* posted to the UI thread's event queue.  While its event loop runs, the UI
\* thread is at most MaxQueue emissions behind.
Emit(j, ev) ==
    /\ uiPc = "idle" => Len(queue) < MaxQueue
    /\ events' = [events EXCEPT ![j] = Append(@, ev)]
    /\ queue' = Append(queue, ev)

\* run() returns: its local duration_process is destroyed, which kills a
\* probe that is still running
Return(j) ==
    /\ pc' = [pc EXCEPT ![j] = "done"]
    /\ duration_process' =
           [duration_process EXCEPT
               ![j] = IF @ = "Running" THEN "Exited" ELSE @]

\* run_begin without the check of lines 74-76
run_begin_NoExistsCheck(j, mkdirOk) ==
    /\ pc[j] = "started"
    /\ IF ~mkdirOk
       THEN /\ Emit(j, ErrorEv(j, "exception"))
            /\ Return(j)
            /\ UNCHANGED output_path
       ELSE /\ output_path' =
                   [output_path EXCEPT
                       ![j] = OutputPath(input_path[j], output_dir)]
            /\ duration_process' = [duration_process EXCEPT ![j] = "Running"]
            /\ pc' = [pc EXCEPT ![j] = "probe_wait"]
            /\ UNCHANGED <<events, queue>>
    /\ UNCHANGED <<uiVars, input_path, total_duration, probe_duration,
                   is_cancelled, has_process, process, fs, merge_exit>>

\* run(), lines 72-87: the input check, makedirs (mkdirOk: it does not
\* raise), the output path, the probe's start
run_begin(j, mkdirOk) ==
    /\ pc[j] = "started"
    /\ IF input_path[j] \notin fs
       THEN /\ Emit(j, ErrorEv(j, "missing"))
            /\ Return(j)
            /\ UNCHANGED output_path
       ELSE IF ~mkdirOk
       THEN /\ Emit(j, ErrorEv(j, "exception"))
            /\ Return(j)
            /\ UNCHANGED output_path
       ELSE /\ output_path' =
                   [output_path EXCEPT
                       ![j] = OutputPath(input_path[j], output_dir)]
            /\ duration_process' = [duration_process EXCEPT ![j] = "Running"]
            /\ pc' = [pc EXCEPT ![j] = "probe_wait"]
            /\ UNCHANGED <<events, queue>>
    /\ UNCHANGED <<uiVars, input_path, total_duration, probe_duration,
                   is_cancelled, has_process, process, fs, merge_exit>>

\* run(), lines 95-96 and 112: the stage that follows the probe
AfterProbe(j) ==
    IF AudioFile(input_path[j]) \in fs THEN "merge_create"
    ELSE "direct_create"

\* the durations the output of the probe holds in Spec and SpecBatch: none,
\* or whole seconds
ProbeDurations == {NoDuration} \cup {<<0, 0, s, 0, 2>> : s \in 1..MaxDur}

\* run(), lines 89-92: _total_duration after the probe whose output holds
\* the duration d
ProbedDuration(j, d) ==
    IF d = NoDuration THEN total_duration[j]
    ELSE time_str_to_seconds(TimeText(d))

\* the probe has exited; a job whose probe printed no duration fails
run_probe_finished_FailsUnmatched(j, d) ==
    /\ pc[j] = "probe_wait"
    /\ probe_duration' = [probe_duration EXCEPT ![j] = d]
    /\ total_duration' = [total_duration EXCEPT ![j] = ProbedDuration(j, d)]
    /\ IF d = NoDuration
       THEN /\ Emit(j, ErrorEv(j, "exception"))
            /\ Return(j)
       ELSE /\ duration_process' = [duration_process EXCEPT ![j] = "Exited"]
            /\ pc' = [pc EXCEPT ![j] = AfterProbe(j)]
            /\ UNCHANGED <<events, queue>>
    /\ UNCHANGED <<uiVars, input_path, output_path, is_cancelled,
                   has_process, process, fs, merge_exit>>

\* run(), lines 88-96: the probe has exited; d is the duration its output
\* holds
run_probe_finished(j, d) ==
    /\ pc[j] = "probe_wait"
    /\ duration_process' = [duration_process EXCEPT ![j] = "Exited"]
    /\ probe_duration' = [probe_duration EXCEPT ![j] = d]
    /\ total_duration' = [total_duration EXCEPT ![j] = ProbedDuration(j, d)]
    /\ pc' = [pc EXCEPT ![j] = AfterProbe(j)]
    /\ UNCHANGED <<uiVars, queue, input_path, output_path, is_cancelled,
                   has_process, process, fs, events, merge_exit>>

\* run(), lines 88-96: waitForFinished() gives up after its default 30 s;
\* the probe runs on (here: until it is destroyed), d is in what it has
\* written so far
run_probe_timeout(j, d) ==
    /\ pc[j] = "probe_wait"
    /\ probe_duration' = [probe_duration EXCEPT ![j] = d]
    /\ total_duration' = [total_duration EXCEPT ![j] = ProbedDuration(j, d)]
    /\ pc' = [pc EXCEPT ![j] = AfterProbe(j)]
    /\ UNCHANGED <<uiVars, queue, input_path, output_path, is_cancelled,
                   has_process, process, duration_process, fs, events,
                   merge_exit>>

Stages == {"merge", "extract", "direct"}

\* the file a stage's command writes (_run_merge, _run_audio_extract,
\* _run_direct_convert)
StageOutput(j, stage) ==
    IF stage = "merge" THEN MergedTs(input_path[j]) ELSE output_path[j]

\* the files a stage's command reads
StageInputs(j, stage) ==
    IF stage = "merge" THEN {input_path[j], AudioFile(input_path[j])}
    ELSE IF stage = "extract" THEN {MergedTs(input_path[j])}
    ELSE {input_path[j]}

\* _run_ffmpeg, lines 167-170
run_ffmpeg_create(j, stage) ==
    /\ pc[j] = stage \o "_create"
    /\ has_process' = [has_process EXCEPT ![j] = TRUE]
    /\ process' = [process EXCEPT ![j] = [NoProcess EXCEPT !.stage = stage]]
    /\ pc' = [pc EXCEPT ![j] = stage \o "_start"]
    /\ UNCHANGED <<uiVars, queue, input_path, output_path, total_duration,
                   probe_duration, is_cancelled, duration_process, fs, events,
                   merge_exit>>

\* _run_ffmpeg, line 171
run_ffmpeg_start(j, stage) ==
    /\ pc[j] = stage \o "_start"
    /\ process' = [process EXCEPT
                      ![j] = [@ EXCEPT
                                 !.state = "Running",
                                 !.out = StageOutput(j, stage),
                                 !.canSucceed =
                                     StageInputs(j, stage) \subseteq fs]]
    /\ pc' = [pc EXCEPT ![j] = stage \o "_wait"]
    /\ UNCHANGED <<uiVars, queue, input_path, output_path, total_duration,
                   probe_duration, is_cancelled, has_process,
                   duration_process, fs, events, merge_exit>>

\* the worker is inside waitForFinished(-1) of line 172
Waiting(j) ==
    /\ \E stage \in Stages : pc[j] = stage \o "_wait"
    /\ process[j].state = "Running"

\* line 180 for the time token of t seconds
TokenTime ==
    [t \in 1..MaxTime |-> time_str_to_seconds(TimeText(<<0, 0, t, 0, 2>>))]

\* a chunk of standard output: blank, text without a time token, or text
\* whose first time token is t seconds
StdoutChunks ==
    {<<"blank", 0>>, <<"text", 0>>} \cup {<<"time", t>> : t \in 1..MaxTime}

\* _read_stdout, called inside waitForFinished.  The tool's position only
\* moves forward.
read_stdout(j, chunk) ==
    /\ Waiting(j)
    /\ chunk[1] = "time" => chunk[2] > process[j].time
    /\ process' = [process EXCEPT
                      ![j] = IF chunk[1] = "time"
                             THEN [@ EXCEPT !.time = chunk[2]] ELSE @]
    /\ IF chunk[1] = "time" /\ total_duration[j] > 0
       THEN Emit(j, ProgressEv(j, TokenTime[chunk[2]], total_duration[j]))
       ELSE UNCHANGED <<events, queue>>
    /\ UNCHANGED <<uiVars, pc, input_path, output_path, total_duration,
                   probe_duration, is_cancelled, has_process,
                   duration_process, fs, merge_exit>>

\* _read_stderr, called inside waitForFinished
read_stderr(j, chunk) ==
    /\ Waiting(j)
    /\ chunk = "text" => process[j].nerr < MaxStderr
    /\ IF chunk = "text"
       THEN /\ Emit(j, ErrorEv(j, "stderr"))
            /\ process' = [process EXCEPT ![j] = [@ EXCEPT !.nerr = @ + 1]]
       ELSE UNCHANGED <<events, queue, process>>
    /\ UNCHANGED <<uiVars, pc, input_path, output_path, total_duration,
                   probe_duration, is_cancelled, has_process,
                   duration_process, fs, merge_exit>>

\* the subprocess opens its output file (the -y of lines 129, 143, 156)
ProcWriteOutput(j) ==
    /\ Waiting(j)
    /\ process[j].canSucceed
    /\ process[j].out \notin fs
    /\ fs' = fs \cup {process[j].out}
    /\ UNCHANGED <<uiVars, queue, workerVars, events>>

\* the subprocess exits by itself: with 0 only when it could read its
\* inputs and has written its output
ProcExit(j, code) ==
    /\ Waiting(j)
    /\ code = 0 => process[j].canSucceed /\ process[j].out \in fs
    /\ process' = [process EXCEPT
                      ![j] = [@ EXCEPT !.state = "NotRunning",
                                       !.exitCode = code]]
    /\ UNCHANGED <<uiVars, queue, pc, input_path, output_path, total_duration,
                   probe_duration, is_cancelled, has_process,
                   duration_process, fs, events, merge_exit>>

\* waitForFinished(-1) of line 172 has returned for the stage
Waited(j, stage) ==
    /\ pc[j] = stage \o "_wait"
    /\ process[j].state = "NotRunning"

\* run(), lines 99-100
run_merge_check(j) ==
    /\ Waited(j, "merge")
    /\ IF is_cancelled[j]
       THEN Return(j)
       ELSE /\ pc' = [pc EXCEPT ![j] = "extract_create"]
            /\ UNCHANGED duration_process
    /\ merge_exit' = [merge_exit EXCEPT ![j] = <<process[j].exitCode>>]
    /\ UNCHANGED <<uiVars, queue, input_path, output_path, total_duration,
                   probe_duration, is_cancelled, has_process, process, fs,
                   events>>

\* os.remove(merged_ts): FileNotFoundError reaches the except of lines
\* 122-123
RemoveMerged(j) ==
    IF MergedTs(input_path[j]) \in fs
    THEN /\ fs' = fs \ {MergedTs(input_path[j])}
         /\ UNCHANGED <<events, queue>>
    ELSE /\ Emit(j, ErrorEv(j, "exception"))
         /\ UNCHANGED fs

\* run(), lines 102-104
run_extract_check(j) ==
    /\ Waited(j, "extract")
    /\ IF is_cancelled[j]
       THEN /\ RemoveMerged(j)
            /\ Return(j)
       ELSE /\ pc' = [pc EXCEPT ![j] = "extract_exit"]
            /\ UNCHANGED <<duration_process, fs, events, queue>>
    /\ UNCHANGED <<uiVars, input_path, output_path, total_duration,
                   probe_duration, is_cancelled, has_process, process,
                   merge_exit>>

\* run(), lines 105-107 and 109-110
run_extract_exit(j) ==
    /\ pc[j] = "extract_exit"
    /\ IF process[j].exitCode = 0
       THEN /\ Emit(j, FinishedEv(j, output_path[j]))
            /\ pc' = [pc EXCEPT ![j] = "extract_remove"]
            /\ UNCHANGED duration_process
       ELSE /\ Emit(j, ErrorEv(j, "exit"))
            /\ Return(j)
    /\ UNCHANGED <<uiVars, input_path, output_path, total_duration,
                   probe_duration, is_cancelled, has_process, process, fs,
                   merge_exit>>

\* run() returns after the Finished event without line 108
run_extract_remove_KeepsMerged(j) ==
    /\ pc[j] = "extract_remove"
    /\ Return(j)
    /\ UNCHANGED <<uiVars, queue, input_path, output_path, total_duration,
                   probe_duration, is_cancelled, has_process, process, fs,
                   events, merge_exit>>

\* run(), line 108
run_extract_remove(j) ==
    /\ pc[j] = "extract_remove"
    /\ RemoveMerged(j)
    /\ Return(j)
    /\ UNCHANGED <<uiVars, input_path, output_path, total_duration,
                   probe_duration, is_cancelled, has_process, process,
                   merge_exit>>

\* run(), lines 114-115
run_direct_check(j) ==
    /\ Waited(j, "direct")
    /\ IF is_cancelled[j]
       THEN Return(j)
       ELSE /\ pc' = [pc EXCEPT ![j] = "direct_exit"]
            /\ UNCHANGED duration_process
    /\ UNCHANGED <<uiVars, queue, input_path, output_path, total_duration,
                   probe_duration, is_cancelled, has_process, process, fs,
                   events, merge_exit>>

\* run_direct_exit without the test of the exit code
run_direct_exit_IgnoresExitCode(j) ==
    /\ pc[j] = "direct_exit"
    /\ Emit(j, FinishedEv(j, output_path[j]))
    /\ Return(j)
    /\ UNCHANGED <<uiVars, input_path, output_path, total_duration,
                   probe_duration, is_cancelled, has_process, process, fs,
                   merge_exit>>

\* run(), lines 116-120
run_direct_exit(j) ==
    /\ pc[j] = "direct_exit"
    /\ IF process[j].exitCode = 0
       THEN Emit(j, FinishedEv(j, output_path[j]))
       ELSE Emit(j, ErrorEv(j, "exit"))
    /\ Return(j)
    /\ UNCHANGED <<uiVars, input_path, output_path, total_duration,
                   probe_duration, is_cancelled, has_process, process, fs,
                   merge_exit>>

(* ----------------------------- MainWindow ------------------------------ *)
RECURSIVE gcd(_, _)
gcd(a, b) == IF b = 0 THEN a ELSE gcd(b, a % b)

\* the rational n/d in lowest terms, as <<numerator, denominator>>
Frac(n, d) == LET g == gcd(n, d) IN <<n \div g, d \div g>>

\* QProgressBar.setValue with the range 0..100 of line 330: a value out of
\* the range is ignored
SetValue(bar, v) == IF v \in 0..100 THEN v ELSE bar

\* add_file_to_list, lines 408-411
add_file_to_list(p) ==
    /\ uiPc = "idle"
    /\ Len(input_paths) < MaxFiles
    /\ input_paths' = Append(input_paths, p)
    /\ UNCHANGED <<output_dir, active_threads, thread_workers, total_files,
                   current_files_processed, total_progress, progress_bar,
                   last_progress_update_time, uiPc, ci, cancels, batches,
                   queue, workerVars, fs, events>>

\* select_output_dir, lines 413-421, when the dialog returns dir
select_dir(dir) ==
    /\ uiPc = "idle"
    /\ output_dir' = dir
    /\ UNCHANGED <<input_paths, active_threads, thread_workers, total_files,
                   current_files_processed, total_progress, progress_bar,
                   last_progress_update_time, uiPc, ci, cancels, batches,
                   queue, workerVars, fs, events>>

select_output_dir == select_dir(OutDir)

\* start_conversion, lines 423-457.  The loop of lines 437-439 waits for
\* every thread of the previous batch, so the handler ends only once their
\* run() has returned; the new workers take the slots 1..n.
start_conversion ==
    /\ uiPc = "idle"
    /\ input_paths # <<>>
    /\ output_dir # <<>>
    /\ \A j \in Jobs : pc[j] \in {"none", "done"}
    /\ batches' = batches + 1
    /\ progress_bar' = 0
    /\ active_threads' = [i \in 1..Len(input_paths) |-> i]
    /\ thread_workers' = 1..Len(input_paths)
    /\ total_files' = Len(input_paths)
    /\ current_files_processed' = 0
    /\ total_progress' = <<0, 1>>
    /\ pc' = [j \in Jobs |->
                 IF j <= Len(input_paths) THEN "started" ELSE "none"]
    /\ input_path' = [j \in Jobs |->
                 IF j <= Len(input_paths) THEN input_paths[j] ELSE <<>>]
    /\ output_path' = [j \in Jobs |-> <<>>]
    /\ total_duration' = [j \in Jobs |-> 0]
    /\ is_cancelled' = [j \in Jobs |-> FALSE]
    /\ has_process' = [j \in Jobs |-> FALSE]
    /\ process' = [j \in Jobs |-> NoProcess]
    /\ duration_process' = [j \in Jobs |-> "none"]
    /\ probe_duration' = [j \in Jobs |-> NoDuration]
    /\ merge_exit' = [j \in Jobs |-> <<>>]
    /\ events' = [j \in Jobs |-> <<>>]
    /\ UNCHANGED <<input_paths, output_dir, last_progress_update_time, uiPc,
                   ci, cancels, queue, fs>>

\* on_progress, lines 459-475, for progress = cur/total.  throttled: less
\* than 0.1 s have passed since the last update.  roundDown: the floats
\* 0.8 and (1 - 0.8) put the sum just below an integral exact value.
on_progress(cur, total, throttled, roundDown) ==
    LET n == total_files * total
        tp == Frac(100 * (current_files_processed * total + cur), n)
        num == 4 * progress_bar * n
                   + 100 * (current_files_processed * total + cur)
        den == 5 * n
        integral == num % den = 0
        above == tp[1] > progress_bar * tp[2]
        smoothed == IF roundDown THEN (num \div den) - 1 ELSE num \div den
    IN  /\ throttled => last_progress_update_time # 0
        /\ roundDown => ~throttled /\ integral /\ above
        /\ IF throttled
           THEN UNCHANGED <<total_progress, progress_bar,
                            last_progress_update_time>>
           ELSE /\ last_progress_update_time' = 1
                /\ total_progress' = tp
                /\ progress_bar' = SetValue(progress_bar, smoothed)
        /\ UNCHANGED current_files_processed

\* on_finished with the progress taken from the count before its increment
on_finished_StaleCount ==
    /\ current_files_processed' = current_files_processed + 1
    /\ total_progress' = Frac(100 * current_files_processed, total_files)
    /\ progress_bar' =
           SetValue(progress_bar,
                    (100 * current_files_processed) \div total_files)
    /\ UNCHANGED last_progress_update_time

\* on_finished, lines 481-489
on_finished ==
    /\ current_files_processed' = current_files_processed + 1
    /\ total_progress' =
           Frac(100 * (current_files_processed + 1), total_files)
    /\ progress_bar' =
           SetValue(progress_bar,
                    (100 * (current_files_processed + 1)) \div total_files)
    /\ UNCHANGED last_progress_update_time

\* on_error that cancels the batch, as cancel_conversion does
on_error_CancelsAll ==
    /\ progress_bar' = 0
    /\ is_cancelled' = [j \in Jobs |-> TRUE]
    /\ process' = [j \in Jobs |->
                      IF process[j].state = "Running"
                      THEN [process[j] EXCEPT !.state = "NotRunning",
                                              !.exitCode = KilledExitCode]
                      ELSE process[j]]
    /\ UNCHANGED <<current_files_processed, total_progress,
                   last_progress_update_time, pc, input_path, output_path,
                   total_duration, probe_duration, has_process,
                   duration_process, merge_exit>>

\* on_error, lines 511-516
on_error ==
    /\ progress_bar' = 0
    /\ UNCHANGED <<current_files_processed, total_progress,
                   last_progress_update_time, workerVars>>

\* the UI thread's event loop takes the oldest posted emission and calls
\* the slot connected at lines 452-454
Deliver ==
    /\ uiPc = "idle"
    /\ queue # <<>>
    /\ queue' = Tail(queue)
    /\ LET ev == Head(queue)
       IN  \/ /\ ev.kind = "Progress"
              /\ \E throttled \in BOOLEAN, roundDown \in BOOLEAN :
                     on_progress(ev.cur, ev.total, throttled, roundDown)
              /\ UNCHANGED workerVars
           \/ /\ ev.kind = "Finished"
              /\ on_finished
              /\ UNCHANGED workerVars
           \/ /\ ev.kind = "Error"
              /\ on_error
    /\ UNCHANGED <<input_paths, output_dir, active_threads, thread_workers,
                   total_files, uiPc, ci, cancels, batches, fs, events>>

\* QProcess.kill()
Kill(p) == [p EXCEPT !.state = "NotRunning", !.exitCode = KilledExitCode]

\* cancel_conversion, lines 493-500 (and 508-509 when there is no thread)
cancel_conversion_begin ==
    /\ uiPc = "idle"
    /\ cancels < MaxCancels
    /\ cancels' = cancels + 1
    /\ progress_bar' = 0
    /\ IF active_threads = <<>>
       THEN /\ thread_workers' = {}
            /\ UNCHANGED <<uiPc, ci>>
       ELSE /\ uiPc' = "cancel_kill"
            /\ ci' = 1
            /\ UNCHANGED thread_workers
    /\ UNCHANGED <<input_paths, output_dir, active_threads, total_files,
                   current_files_processed, total_progress,
                   last_progress_update_time, batches, queue, workerVars,
                   fs, events>>

\* cancel_conversion, lines 501-504
cancel_conversion_kill ==
    /\ uiPc = "cancel_kill"
    /\ LET j == active_threads[ci]
       IN  IF j \notin thread_workers
           THEN /\ uiPc' = "cancel_wait"
                /\ UNCHANGED process
           ELSE /\ uiPc' = "cancel_flag"
                /\ process' =
                       IF has_process[j] /\ process[j].state = "Running"
                       THEN [process EXCEPT ![j] = Kill(@)]
                       ELSE process
    /\ UNCHANGED <<input_paths, output_dir, active_threads, thread_workers,
                   total_files, current_files_processed, total_progress,
                   progress_bar, last_progress_update_time, ci, cancels,
                   batches, queue, pc, input_path, output_path,
                   total_duration, probe_duration, is_cancelled, has_process,
                   duration_process, fs, events, merge_exit>>

\* FFmpegWorker.cancel, line 207
cancel_set_flag ==
    /\ uiPc = "cancel_flag"
    /\ is_cancelled' = [is_cancelled EXCEPT ![active_threads[ci]] = TRUE]
    /\ uiPc' = "cancel_state"
    /\ UNCHANGED <<input_paths, output_dir, active_threads, thread_workers,
                   total_files, current_files_processed, total_progress,
                   progress_bar, last_progress_update_time, ci, cancels,
                   batches, queue, pc, input_path, output_path,
                   total_duration, probe_duration, has_process, process,
                   duration_process, fs, events, merge_exit>>

\* FFmpegWorker.cancel, lines 208-209.  __init__ (lines 33-42) sets no
\* _process: before the worker's first _run_ffmpeg the read of line 208
\* raises AttributeError, which ends the slot cancel_conversion there.
cancel_kill ==
    /\ uiPc = "cancel_state"
    /\ LET j == active_threads[ci]
       IN  IF ~has_process[j]
           THEN /\ uiPc' = "idle"
                /\ UNCHANGED process
           ELSE /\ uiPc' = "cancel_wait"
                /\ process' =
                       IF process[j].state = "Running"
                       THEN [process EXCEPT ![j] = Kill(@)]
                       ELSE process
    /\ UNCHANGED <<input_paths, output_dir, active_threads, thread_workers,
                   total_files, current_files_processed, total_progress,
                   progress_bar, last_progress_update_time, ci, cancels,
                   batches, queue, pc, input_path, output_path,
                   total_duration, probe_duration, is_cancelled, has_process,
                   duration_process, fs, events, merge_exit>>

\* cancel_conversion, lines 506-509: thread.wait() returns once the
\* worker's run() has returned
cancel_conversion_wait ==
    /\ uiPc = "cancel_wait"
    /\ pc[active_threads[ci]] = "done"
    /\ IF ci < Len(active_threads)
       THEN /\ ci' = ci + 1
            /\ uiPc' = "cancel_kill"
            /\ UNCHANGED <<active_threads, thread_workers>>
       ELSE /\ active_threads' = <<>>
            /\ thread_workers' = {}
            /\ uiPc' = "idle"
            /\ UNCHANGED ci
    /\ UNCHANGED <<input_paths, output_dir, total_files,
                   current_files_processed, total_progress, progress_bar,
                   last_progress_update_time, cancels, batches, queue,
                   workerVars, fs, events>>

(* --------------------------- specification ----------------------------- *)
\* the steps of worker j and of its subprocesses
Worker(j) ==
    \/ \E mkdirOk \in BOOLEAN : run_begin(j, mkdirOk)
    \/ \E d \in ProbeDurations : run_probe_finished(j, d)
    \/ \E d \in ProbeDurations : run_probe_timeout(j, d)
    \/ \E stage \in Stages : run_ffmpeg_create(j, stage)
    \/ \E stage \in Stages : run_ffmpeg_start(j, stage)
    \/ \E chunk \in StdoutChunks : read_stdout(j, chunk)
    \/ \E chunk \in {"blank", "text"} : read_stderr(j, chunk)
    \/ ProcWriteOutput(j)
    \/ \E code \in {0, 1} : ProcExit(j, code)
    \/ run_merge_check(j)
    \/ run_extract_check(j)
    \/ run_extract_exit(j)
    \/ run_extract_remove(j)
    \/ run_direct_check(j)
    \/ run_direct_exit(j)

\* One worker and the coordinator: batches of one file, every path of
\* run(), cancel at any point.
Next ==
    \/ \E p \in InputChoices : input_paths = <<>> /\ add_file_to_list(p)
    \/ select_output_dir
    \/ batches < MaxBatches /\ start_conversion
    \/ Deliver
    \/ cancel_conversion_begin
    \/ cancel_conversion_kill
    \/ cancel_set_flag
    \/ cancel_kill
    \/ cancel_conversion_wait
    \/ \E j \in Jobs : Worker(j)

Spec == Init /\ [][Next]_vars

\* the inputs of the batches of SpecBatch: none has a sibling .m4a
BatchInputs == {PlainInput, MissingInput}

\* the steps of a worker whose input has no sibling .m4a and whose probe
\* exits in time
DirectWorker(j) ==
    \/ \E mkdirOk \in BOOLEAN : run_begin(j, mkdirOk)
    \/ \E d \in ProbeDurations : run_probe_finished(j, d)
    \/ run_ffmpeg_create(j, "direct")
    \/ run_ffmpeg_start(j, "direct")
    \/ \E chunk \in StdoutChunks : read_stdout(j, chunk)
    \/ \E chunk \in {"blank", "text"} : read_stderr(j, chunk)
    \/ ProcWriteOutput(j)
    \/ \E code \in {0, 1} : ProcExit(j, code)
    \/ run_direct_check(j)
    \/ run_direct_exit(j)

\* A batch of up to MaxFiles files that is never cancelled.
NextBatch ==
    \/ \E p \in BatchInputs : add_file_to_list(p)
    \/ select_output_dir
    \/ batches < MaxBatches /\ start_conversion
    \/ Deliver
    \/ \E j \in Jobs : DirectWorker(j)

SpecBatch == Init /\ [][NextBatch]_vars

(* ------------------------------ claims --------------------------------- *)
\* the number of events of kind k in the event sequence es
Count(es, k) == Cardinality({i \in DOMAIN es : es[i].kind = k})

\* the workers of the current batch
Batch == {j \in Jobs : pc[j] # "none"}

\* the failures of run(): every Error but the ones _read_stderr derives
Failures(es) ==
    {i \in DOMAIN es : es[i].kind = "Error" /\ es[i].src # "stderr"}

\* C1: once FFmpegWorker.cancel has set a job's cancelled flag, the job
\* emits no Finished event.
C1_NoFinishedAfterCancel ==
    [][\A j \in Jobs :
           is_cancelled[j] /\ pc[j] # "none"
               => Count(events'[j], "Finished") <= Count(events[j], "Finished")
      ]_vars

\* C2: when run() returns from the check of the cancelled flag that follows
\* the merge or the extraction, the intermediate <input>_merged.ts does not
\* exist.
C2_MergedRemovedOnCancel ==
    [][\A j \in Jobs :
           /\ is_cancelled[j]
           /\ pc[j] \in {"merge_wait", "extract_wait"}
           /\ pc'[j] = "done"
           => MergedTs(input_path[j]) \notin fs'
      ]_vars

\* C3: while no cancel is issued, a job's event stream holds at most one
\* Finished or Error event, nothing follows it, and it is there once run()
\* has returned.
C3_OneTerminalEvent ==
    \A j \in Batch :
        cancels = 0 =>
            LET es == events[j]
                ends == {i \in DOMAIN es : es[i].kind \in {"Finished", "Error"}}
            IN  /\ Cardinality(ends) <= 1
                /\ \A i \in ends : i = Len(es)
                /\ pc[j] = "done" => Cardinality(ends) = 1

\* C4: an uncancelled job whose input exists and whose encode subprocess has
\* exited has, once run() has returned, an Error event and no Finished event
\* when the exit code is not zero, and a Finished event with the output path
\* when it is zero.
C4_ExitCodeDecides ==
    \A j \in Batch :
        /\ pc[j] = "done"
        /\ ~is_cancelled[j]
        /\ input_path[j] \in fs
        /\ process[j].stage \in {"extract", "direct"}
        /\ process[j].state = "NotRunning"
        => IF process[j].exitCode = 0
           THEN \E i \in DOMAIN events[j] :
                    events[j][i] =
                        FinishedEv(j, OutputPath(input_path[j], output_dir))
           ELSE /\ Count(events[j], "Error") >= 1
                /\ Count(events[j], "Finished") = 0

C4_Witness ==
    \E j \in Batch :
        /\ pc[j] = "done"
        /\ ~is_cancelled[j]
        /\ process[j].stage = "extract"
        /\ process[j].exitCode = 0
        /\ Count(events[j], "Finished") = 1

\* C5: a job whose input file does not exist emits exactly one Error event,
\* no Finished and no Progress event, and creates no transcode subprocess.
C5_MissingInput ==
    \A j \in Batch :
        input_path[j] \notin fs =>
            /\ ~has_process[j]
            /\ process[j] = NoProcess
            /\ Count(events[j], "Finished") = 0
            /\ Count(events[j], "Progress") = 0
            /\ Count(events[j], "Error") = (IF pc[j] = "done" THEN 1 ELSE 0)

C5_Witness ==
    \E j \in Batch :
        /\ input_path[j] \notin fs
        /\ pc[j] = "done"
        /\ events[j] = <<ErrorEv(j, "missing")>>

\* every job of the batch has returned with a Finished event and without a
\* failure
AllSucceeded ==
    /\ Batch # {}
    /\ \A j \in Batch :
           /\ pc[j] = "done"
           /\ Count(events[j], "Finished") = 1
           /\ Failures(events[j]) = {}

\* C6: when every job of a batch of N has succeeded and every event has been
\* consumed, N Finished events were received and the overall progress is 100.
C6_BatchCompletes ==
    batches = 1 /\ AllSucceeded /\ queue = <<>>
        => /\ current_files_processed = total_files
           /\ total_files = Cardinality(Batch)
           /\ total_progress = <<100, 1>>
           /\ progress_bar = 100

C6_Witness ==
    /\ batches = 1
    /\ AllSucceeded
    /\ queue = <<>>
    /\ total_files = 2
    /\ \E j \in Batch : Count(events[j], "Error") > 0
    /\ \E j \in Batch : Count(events[j], "Progress") > 0

\* C7: every Progress event carries a fraction cur/total in [0, 1].
C7_FractionInRange ==
    \A j \in Batch :
        \A i \in DOMAIN events[j] :
            events[j][i].kind = "Progress"
                => /\ 0 <= events[j][i].cur
                   /\ events[j][i].cur <= events[j][i].total

\* C8: the Progress fractions of a job never decrease along its event
\* stream.
C8_FractionMonotone ==
    \A j \in Batch :
        \A i, k \in DOMAIN events[j] :
            /\ i < k
            /\ events[j][i].kind = "Progress"
            /\ events[j][k].kind = "Progress"
            => events[j][i].cur * events[j][k].total
                   <= events[j][k].cur * events[j][i].total

\* C9: when cancel_conversion ends, every worker of the batch has its
\* cancelled flag set and no subprocess of the batch is running.
C9_CancelAll ==
    [][uiPc # "idle" /\ uiPc' = "idle"
           => \A j \in Jobs :
                  pc'[j] # "none"
                      => /\ is_cancelled'[j]
                         /\ process'[j].state # "Running"
                         /\ duration_process'[j] # "Running"
      ]_vars

\* worker j emits a failure in this step, or the coordinator consumes one
\* of its failures
FailureStep(j) ==
    \/ /\ Len(events'[j]) = Len(events[j]) + 1
       /\ Failures(events'[j]) # Failures(events[j])
    \/ /\ queue # <<>>
       /\ queue' = Tail(queue)
       /\ Head(queue).job = j
       /\ Head(queue).kind = "Error"
       /\ Head(queue).src # "stderr"

\* C10: a step in which a job fails, or in which its failure is consumed,
\* leaves every other job's cancelled flag, subprocess and position as they
\* are; every job that has returned uncancelled has its own Finished or
\* failure event; and a job that has not returned can still step, or the
\* coordinator can consume an event.
C10_FailureIsLocal ==
    /\ [][\A j \in Jobs :
              FailureStep(j)
                  => \A k \in Jobs \ {j} :
                         /\ is_cancelled'[k] = is_cancelled[k]
                         /\ process'[k] = process[k]
                         /\ duration_process'[k] = duration_process[k]
                         /\ pc'[k] = pc[k]
         ]_vars
    /\ [](\A k \in Batch :
              /\ ~is_cancelled[k]
              /\ process[k].exitCode # KilledExitCode
              /\ pc[k] = "done"
                  => Count(events[k], "Finished")
                         + Cardinality(Failures(events[k])) = 1)
    /\ [](\A k \in Batch :
              pc[k] # "done" => ENABLED (DirectWorker(k) \/ Deliver))

C10_Witness ==
    \E j, k \in Batch :
        /\ j # k
        /\ Failures(events[j]) # {}
        /\ pc[k] = "done"
        /\ Count(events[k], "Finished") = 1
        /\ queue = <<>>

\* C11: a job never has two live subprocesses: while the subprocess of
\* _run_ffmpeg (merge, extraction or encode) runs, the duration probe has
\* exited.
C11_OneLiveSubprocess ==
    \A j \in Batch :
        ~(duration_process[j] = "Running" /\ process[j].state = "Running")

(* ----------------------- the output path, C12 -------------------------- *)
\* the characters of the paths of SpecPath: a letter, the dot, the
\* separator and the space
PathAlphabet == {"a", ".", "/", " "}

\* every input path of at most MaxPathLen characters
PathChoices == UNION {[1..n -> PathAlphabet] : n \in 1..MaxPathLen}

\* the directories the dialog of select_output_dir returns
DirChoices == {OutDir, <<"/">>, <<"o", "/", "p">>}

\* SpecPath: one file of any name, which exists, is added, an output
\* directory is chosen and the batch is started; run() derives the output
\* path and starts the probe
NextPath ==
    \/ input_paths = <<>> /\ \E p \in PathChoices : add_file_to_list(p)
    \/ output_dir = <<>> /\ \E dir \in DirChoices : select_dir(dir)
    \/ batches < MaxBatches /\ start_conversion
    \/ \E j \in Jobs : run_begin(j, TRUE)

SpecPath == InitOn(PathChoices) /\ [][NextPath]_vars

\* the part of p after its last separator
NameOf(p) ==
    CHOOSE n \in {SubSeq(p, k, Len(p)) : k \in 1..(Len(p) + 1)} :
        /\ \A i \in DOMAIN n : n[i] # "/"
        /\ Len(n) < Len(p) => p[Len(p) - Len(n)] = "/"

\* name without its last extension: the part before the last dot, when
\* something other than dots precedes that dot
StemOf(name) ==
    LET cuts == {k \in DOMAIN name :
                    /\ name[k] = "."
                    /\ \A i \in (k + 1)..Len(name) : name[i] # "."
                    /\ \E i \in 1..(k - 1) : name[i] # "."}
    IN  IF cuts = {} THEN name
        ELSE SubSeq(name, 1, (CHOOSE k \in cuts : TRUE) - 1)

\* C12: the output path of a job is the chosen output directory, a
\* separator unless the directory ends with one, and the input's name after
\* its last separator with its last extension replaced by ".mp3".
C12_OutputPath ==
    \A j \in Batch :
        pc[j] = "probe_wait"
            => output_path[j] =
                   output_dir
                       \o (IF output_dir[Len(output_dir)] = "/"
                           THEN <<>> ELSE <<"/">>)
                       \o StemOf(NameOf(input_path[j]))
                       \o <<".", "m", "p", "3">>

\* "/a .a" in directory "o/p" gives "o/p/a .mp3"
C12_Witness ==
    \E j \in Batch :
        /\ input_path[j] = <<"/", "a", " ", ".", "a">>
        /\ output_dir = <<"o", "/", "p">>
        /\ output_path[j] =
               <<"o", "/", "p", "/", "a", " ", ".", "m", "p", "3">>

(* ------------------- the parse of a duration, C13 ---------------------- *)
\* every duration the output of the probe holds in SpecTime
TimeChoices ==
    {<<h, m, s, f, w>> : h \in 0..MaxHours, m \in 0..MaxMinutes,
                         s \in 0..MaxSeconds, f \in 0..MaxHundredths,
                         w \in {1, 2}}

\* SpecTime: a batch of one existing file whose probe prints any duration
NextTime ==
    \/ input_paths = <<>> /\ add_file_to_list(PlainInput)
    \/ select_output_dir
    \/ batches < MaxBatches /\ start_conversion
    \/ \E j \in Jobs : run_begin(j, TRUE)
    \/ \E j \in Jobs :
           pc[j] = "probe_wait"
               /\ \E d \in TimeChoices : run_probe_finished(j, d)

SpecTime == Init /\ [][NextTime]_vars

\* C13: when the probe's output holds the duration H:M:S.ff, the job's total
\* duration is 3600*H + 60*M + S.ff seconds, in hundredths of a second
\* 360000*H + 6000*M + 100*S + ff.
C13_TimeStrToSeconds ==
    \A j \in Batch :
        probe_duration[j] # NoDuration
            => total_duration[j] =
                   360000 * probe_duration[j][1] + 6000 * probe_duration[j][2]
                       + 100 * probe_duration[j][3] + probe_duration[j][4]

\* "1:02:03.25" gives 3723.25 s
C13_Witness ==
    \E j \in Batch :
        /\ probe_duration[j] = <<1, 2, 3, 25, 1>>
        /\ total_duration[j] = 372325

\* C14: once a job's cancelled flag is set, no step starts a subprocess of
\* the job and no step creates or deletes a file.
C14_StopsAfterCancel ==
    [][\A j \in Jobs :
           is_cancelled[j] /\ pc[j] # "none"
               => /\ process[j].state = "Running"
                      \/ process'[j].state # "Running"
                  /\ duration_process[j] = "Running"
                      \/ duration_process'[j] # "Running"
                  /\ fs' = fs
      ]_vars

\* the probe of job j has ended and its output held no duration
Unprobed(j) ==
    /\ duration_process[j] # "none"
    /\ pc[j] # "probe_wait"
    /\ probe_duration[j] = NoDuration

\* C15: when the probe's output holds no duration, the job's total duration
\* is 0 and it emits no Progress event; once its run() has returned
\* uncancelled, its extraction or encode subprocess has run and exited, and
\* the job has one Finished event and no failure when the exit code is zero,
\* a failure and no Finished event otherwise.
C15_NoDurationNoProgress ==
    \A j \in Batch :
        Unprobed(j)
            => /\ total_duration[j] = 0
               /\ Count(events[j], "Progress") = 0
               /\ pc[j] = "done" /\ ~is_cancelled[j]
                   => /\ process[j].stage \in {"extract", "direct"}
                      /\ process[j].state = "NotRunning"
                      /\ IF process[j].exitCode = 0
                         THEN /\ Count(events[j], "Finished") = 1
                              /\ Failures(events[j]) = {}
                         ELSE /\ Count(events[j], "Finished") = 0
                              /\ Failures(events[j]) # {}

\* the encode reported a time, no Progress event came of it, and the job
\* finished
C15_Witness ==
    \E j \in Batch :
        /\ Unprobed(j)
        /\ pc[j] = "done"
        /\ ~is_cancelled[j]
        /\ process[j].time > 0
        /\ Count(events[j], "Finished") = 1

\* C16: a job whose merge subprocess has exited with a code other than zero
\* emits no Finished event, and has an Error event of run() once run() has
\* returned uncancelled.
C16_MergeFailureFails ==
    \A j \in Batch :
        merge_exit[j] # <<>> /\ merge_exit[j] # <<0>>
            => /\ Count(events[j], "Finished") = 0
               /\ pc[j] = "done" /\ ~is_cancelled[j]
                   => Failures(events[j]) # {}

(* ----------------------- starting again, C17 --------------------------- *)
\* SpecRestart: batches of one existing file without a sibling .m4a, which
\* can be cancelled and started again once the previous batch's run() has
\* returned; the emissions of the previous batch that the UI thread has not
\* consumed stay posted.
NextRestart ==
    \/ input_paths = <<>> /\ add_file_to_list(PlainInput)
    \/ select_output_dir
    \/ batches < MaxRestartBatches /\ start_conversion
    \/ Deliver
    \/ cancel_conversion_begin
    \/ cancel_conversion_kill
    \/ cancel_set_flag
    \/ cancel_kill
    \/ cancel_conversion_wait
    \/ \E j \in Jobs : DirectWorker(j)

SpecRestart == Init /\ [][NextRestart]_vars

\* C17: the count of completed files never exceeds the number of files of
\* the current batch, and the overall progress, as computed and as shown,
\* stays within 0..100.
C17_CountAndProgressInRange ==
    /\ current_files_processed <= total_files
    /\ progress_bar \in 0..100
    /\ total_progress[1] >= 0
    /\ total_progress[1] <= 100 * total_progress[2]

\* C18: two entries of the input list never give two jobs of a batch the
\* same output path or the same intermediate path.
C18_DistinctFiles ==
    \A j, k \in Batch :
        j # k /\ output_path[j] # <<>> /\ output_path[k] # <<>>
            => /\ output_path[j] # output_path[k]
               /\ MergedTs(input_path[j]) # MergedTs(input_path[k])

\* C19: in a batch without a cancel whose jobs all succeed, no consumed
\* event lowers the progress shown.  Stated for the events that are
\* consumed once every job of the batch has returned with its Finished
\* event and without a failure.
C19_ProgressNeverDecreases ==
    [][AllSucceeded /\ cancels = 0 /\ queue # <<>> /\ queue' = Tail(queue)
           => progress_bar' >= progress_bar
      ]_vars

\* job j went through the merge and the extraction and its run() has
\* returned with the cancelled flag unset
MergePathReturned(j) ==
    /\ pc[j] = "done"
    /\ ~is_cancelled[j]
    /\ merge_exit[j] # <<>>
    /\ process[j].stage = "extract"
    /\ process[j].state = "NotRunning"

\* C20 as stated: once run() has returned for an uncancelled job on the
\* merge path, the intermediate <input>_merged.ts does not exist, whatever
\* the exit code of the extraction.
C20_MergedGoneAfterReturn ==
    \A j \in Batch :
        MergePathReturned(j) => MergedTs(input_path[j]) \notin fs

\* C20 amended: once run() has returned for an uncancelled job on the merge
\* path whose extraction exited with code zero, the intermediate
\* <input>_merged.ts does not exist.
C20_MergedGoneAfterSuccess ==
    \A j \in Batch :
        MergePathReturned(j) /\ process[j].exitCode = 0
            => MergedTs(input_path[j]) \notin fs

\* the extraction succeeded, the job has its Finished event and the
\* intermediate the merge wrote is gone
C20_Witness ==
    \E j \in Batch :
        /\ MergePathReturned(j)
        /\ process[j].exitCode = 0
        /\ merge_exit[j] = <<0>>
        /\ Count(events[j], "Finished") = 1
        /\ MergedTs(input_path[j]) \notin fs

====
